---- MODULE Spec2Model ----
(***************************************************************************)
(* A model of Mailman's message-hold handler, Mailman/Handlers/Hold.py:    *)
(* process() decides whether a post is held, hold_for_approval() registers *)
(* the hold, sends the sender and moderator notifications, logs and raises *)
(* the hold reason.  The collaborators the handler calls (held-message     *)
(* registrar, pending store, mail sending, autoresponder policy) are the   *)
(* environment: their state is part of the model, their failures are       *)
(* nondeterministic.                                                       *)
(***************************************************************************)
EXTENDS Integers, Sequences, FiniteSets, TLC

\* Number of messages the pipeline hands to the handler in one behaviour.
MaxCalls == 2

----------------------------------------------------------------------------
\* Optional values (a Python None / a missing dictionary key or header):
\* <<>> is "absent", <<v>> is "present with value v".
None == <<>>
Some(v) == <<v>>

\* dict.get(key, default) and Message.get(header, default).
Get(h, default) == IF h = None THEN default ELSE h[1]

\* Header values that the code inspects character by character are
\* sequences of one-character strings.
UpperLetters == <<"A","B","C","D","E","F","G","H","I","J","K","L","M",
                  "N","O","P","Q","R","S","T","U","V","W","X","Y","Z">>
LowerLetters == <<"a","b","c","d","e","f","g","h","i","j","k","l","m",
                  "n","o","p","q","r","s","t","u","v","w","x","y","z">>

LowerChar(c) ==
    IF \E i \in DOMAIN UpperLetters : UpperLetters[i] = c
    THEN LowerLetters[CHOOSE i \in DOMAIN UpperLetters : UpperLetters[i] = c]
    ELSE c

\* str.lower()
lower(s) == [i \in 1..Len(s) |-> LowerChar(s[i])]

s_yes == <<"y","e","s">>
s_bulk == <<"b","u","l","k">>
s_junk == <<"j","u","n","k">>
s_list == <<"l","i","s","t">>

\* ackp without the two lower() calls.
ackp_case_sensitive(m) ==
    LET ack == Get(m.x_ack, <<>>)
        precedence == Get(m.precedence, <<>>)
    IN  IF ack # s_yes /\ precedence \in {s_bulk, s_junk, s_list} THEN 0 ELSE 1

\* ackp with 'no', and not 'yes', as the X-Ack value that overrides the
\* precedence.
ackp_forced_by_no(m) ==
    LET ack == lower(Get(m.x_ack, <<>>))
        precedence == lower(Get(m.precedence, <<>>))
    IN  IF ack # <<"n","o">> /\ precedence \in {s_bulk, s_junk, s_list}
        THEN 0 ELSE 1

\* Hold.ackp: 0 when the message asks for no acknowledgement.
ackp(m) ==
    LET ack == lower(Get(m.x_ack, <<>>))
        precedence == lower(Get(m.precedence, <<>>))
    IN  IF ack # s_yes /\ precedence \in {s_bulk, s_junk, s_list} THEN 0 ELSE 1

----------------------------------------------------------------------------
\* The hold reasons, Errors.HoldMessage subclasses of Hold.py.
ReasonClasses ==
    {"ForbiddenPoster", "ModeratedPost", "NonMemberPost",
     "NotExplicitlyAllowed", "TooManyRecipients", "ImplicitDestination",
     "Administrivia", "SuspiciousHeaders", "MessageTooBig",
     "ModeratedNewsgroup"}

\* The class attribute `reason` of each class.
ClassReason(cls) ==
    CASE cls = "ForbiddenPoster" -> "Sender is explicitly forbidden"
      [] cls = "ModeratedPost" -> "Post to moderated list"
      [] cls = "NonMemberPost" -> "Post by non-member to a members-only list"
      [] cls = "NotExplicitlyAllowed" ->
             "Posting to a restricted list by sender requires approval"
      [] cls = "TooManyRecipients" -> "Too many recipients to the message"
      [] cls = "ImplicitDestination" -> "Message has implicit destination"
      [] cls = "Administrivia" -> "Message may contain administrivia"
      [] cls = "SuspiciousHeaders" -> "Message has a suspicious header"
      [] cls = "ModeratedNewsgroup" -> "Posting to a moderated newsgroup"
      [] OTHER -> ""

\* The class attribute `rejection` of each class (ModeratedNewsgroup inherits
\* ModeratedPost's).
ClassRejection(cls) ==
    CASE cls = "ForbiddenPoster" ->
             "You are forbidden from posting messages to this list."
      [] cls \in {"ModeratedPost", "ModeratedNewsgroup"} ->
             "Your message was deemed inappropriate by the moderator."
      [] cls = "NonMemberPost" ->
             "Non-members are not allowed to post messages to this list."
      [] cls = "NotExplicitlyAllowed" ->
             "This list is restricted; your message was not approved."
      [] cls = "TooManyRecipients" ->
             "Please trim the recipient list; it is too long."
      [] cls = "ImplicitDestination" ->
             "Blind carbon copies or other implicit destinations are not allowed. Try reposting your message by explicitly including the list address in the To: or Cc: fields."
      [] cls = "SuspiciousHeaders" -> "Your message had a suspicious header."
      [] OTHER -> ""

\* A reason as the callers pass it: a class (isclass) or an instance; args
\* are the constructor arguments an instance was built with.
ReasonClass(cls) == [isclass |-> TRUE, cls |-> cls, args |-> <<>>]
ReasonInstance(cls, args) == [isclass |-> FALSE, cls |-> cls, args |-> args]

\* Number of arguments the class's constructor requires.
CtorArity(cls) == IF cls = "MessageTooBig" THEN 2 ELSE 0

\* exc.reason_notice(): a text with the values it interpolates.
reason_notice(exc) ==
    IF exc.cls = "MessageTooBig"
    THEN [text |-> "Message body is too big: $size bytes with a limit of $limit KB",
          args |-> exc.args]
    ELSE [text |-> ClassReason(exc.cls), args |-> <<>>]

\* mlist.script_url(name)
script_url(ml, name) == <<"http://", ml.host_name, "/mailman/", name, ml.list_name>>

\* exc.rejection_notice(mlist)
rejection_notice(exc, ml) ==
    CASE exc.cls = "MessageTooBig" ->
             [text |-> "Your message was too big; please trim it to less than $kb KB in size.",
              args |-> <<exc.args[2]>>]
      [] exc.cls = "Administrivia" ->
             [text |-> "Please do *not* post administrative requests to the mailing list. If you wish to subscribe, visit $listurl or send a message with the word `help' in it to the request address, $request, for further instructions.",
              args |-> <<script_url(ml, "listinfo"), ml.request_address>>]
      [] OTHER -> [text |-> ClassRejection(exc.cls), args |-> <<>>]

\* Utils.wrap(text): the text re-flowed; kept as an uninterpreted application.
wrap(t) == <<"wrap", t>>

\* HeldMessagePendable.PEND_KEY
PEND_KEY == "held message"

\* A pendable that does not carry the held-message identifier.
HeldMessagePendable_without_id(type, id) == [type |-> type, id |-> 0]

\* HeldMessagePendable(type=..., id=...)
HeldMessagePendable(type, id) == [type |-> type, id |-> id]

----------------------------------------------------------------------------
\* The mailing list the handler works for.  Its notification toggles and its
\* bounce-header rules are chosen in Init; the handler only reads it.
ListLang == "en"
MemberLang == "fr"
MetaLang == "de"
\* The languages the caller may have active when it calls the handler.
Languages == {ListLang, MemberLang}

\* Addresses and list names are sequences of characters, for the code
\* slices them (line 157).
MemberAddr ==
    <<"a","n","n","e","@","e","x","a","m","p","l","e",".","c","o","m">>
StrangerAddr ==
    <<"b","a","r","t","@","e","x","a","m","p","l","e",".","c","o","m">>
AdminAliasAddr ==
    <<"t","e","s","t","-","a","d","m","i","n","@",
      "e","x","a","m","p","l","e",".","c","o","m">>
EnvelopeAddr ==
    <<"e","n","v","e","l","o","p","e","@",
      "e","x","a","m","p","l","e",".","c","o","m">>
OverrideAddr ==
    <<"c","a","r","o","l","@","e","x","a","m","p","l","e",".","c","o","m">>
ListName == <<"t","e","s","t">>

\* s[:n]
Take(s, n) == SubSeq(s, 1, IF n < Len(s) THEN n ELSE Len(s))

MailingLists ==
    [list_name : {ListName},
     host_name : {"example.com"},
     owner_address : {"test-owner@example.com"},
     bounces_address : {"test-bounces@example.com"},
     request_address : {"test-request@example.com"},
     preferred_language : {ListLang},
     members : {[a \in {MemberAddr} |-> [preferred_language |-> MemberLang]]},
     admin_immed_notify : BOOLEAN,
     respond_to_post_requests : BOOLEAN,
     bounce_matching_headers : {{}, {"x-spam-flag"}}]

\* mlist.members.get_member(address)
get_member(ml, address) ==
    IF address \in DOMAIN ml.members THEN Some(ml.members[address]) ELSE None

\* The messages the pipeline delivers.  indicators are the message's headers
\* that a bounce-header rule can name.
HeaderValues == {None, Some(s_yes), Some(<<"n","o">>)}
PrecedenceValues == {None, Some(<<"B","u","l","k">>)}

Messages ==
    [sender : {MemberAddr, StrangerAddr, AdminAliasAddr},
     envelope_sender : {EnvelopeAddr},
     subject : {Some("Hello")},
     message_id : {Some("<m1@example.com>")},
     x_ack : HeaderValues,
     precedence : PrecedenceValues,
     indicators : {{}, {"x-spam-flag"}}]

\* The per-message metadata the pipeline passes along with the message.
Metadata ==
    [approved : {None, Some(TRUE)},
     fromusenet : {None, Some(TRUE)},
     sender : {None, Some(OverrideAddr)},
     lang : {None, Some(MetaLang)},
     rejection_notice : {None}]

\* Python truth of dict.get(key) for a flag.
Flag(h) == Get(h, FALSE)

\* msg.get_sender(): the sender the message's headers name.
get_sender(m) == m.sender

\* msg.get_sender(use_envelope=0): the fallback process takes, the envelope
\* sender of the message.
get_sender_fallback(m) == m.envelope_sender

\* has_matching_bounce_header(mlist, msg): some configured rule matches.
has_matching_bounce_header(ml, m) ==
    \E rule \in ml.bounce_matching_headers : rule \in m.indicators

\* The reasons the other handlers of the pipeline pass to hold_for_approval.
DirectReasons ==
    {ReasonInstance("ModeratedPost", <<>>),
     ReasonClass("MessageTooBig"),
     ReasonInstance("MessageTooBig", <<50, 40>>)}

\* No form is submitted to the message pipeline.
NoForm == [boxes |-> <<>>, topics_enabled |-> None,
           topics_bodylines_limit |-> None]

\* The database as the message pipeline and the forms see it: no table of it
\* is read or written.
NoStore == [domain |-> {}, user |-> {}, next_id |-> 1]

----------------------------------------------------------------------------
VARIABLES
    mlist,              \* the mailing list
    msg,                \* the message being processed
    msgdata,            \* its metadata
    autoresponse_ok,    \* what the autoresponder policy answers for this sender
    entry,              \* "process" or "hold": the function the pipeline called
    exc,                \* the reason hold_for_approval was called with
    loc,                \* the locals of process and hold_for_approval
    pc,                 \* position in the call
    outcome,            \* how the call ended
    calls,              \* number of calls started
    heldDb,             \* the held-message registrar's records, by id
    pendings,           \* the pending store's records, by token
    senderNotices,      \* sender notifications sent by this call
    moderatorNotices,   \* moderator notifications sent by this call
    logLines,           \* lines this call logged to mailman.vette
    trace,              \* the externally visible steps of this call, in order
    start,              \* the store sizes and the language when this call began
    ackRet,             \* the value a direct call of ackp returned
    language,           \* i18n: the active translation language
    cgidata,            \* the form the list administrator submitted
    store,              \* the database: the domain and the user tables
    events              \* zope.event: the events this call notified

vars == <<mlist, msg, msgdata, autoresponse_ok, entry, exc, loc, pc, outcome,
          calls, heldDb, pendings, senderNotices, moderatorNotices, logLines,
          trace, start, ackRet, language, cgidata, store, events>>

NoReason == ReasonInstance("", <<>>)
NoText == wrap([text |-> "", args |-> <<>>])
NoLocals ==
    [process_sender |-> <<>>, exc |-> NoReason, sender |-> <<>>,
     reason |-> NoText, id |-> 0,
     token |-> 0, confirmurl |-> None, lang |-> ""]

Running == [status |-> "running", raised |-> None, error |-> ""]
Returned == [status |-> "returned", raised |-> None, error |-> ""]
Raised(e) == [status |-> "raised", raised |-> Some(e), error |-> ""]
Failed(err) == [status |-> "failed", raised |-> None, error |-> err]

IdleMessage ==
    [sender |-> StrangerAddr, envelope_sender |-> EnvelopeAddr,
     subject |-> Some("Hello"), message_id |-> Some("<m1@example.com>"),
     x_ack |-> None, precedence |-> None, indicators |-> {}]
IdleMetadata ==
    [approved |-> None, fromusenet |-> None, sender |-> None, lang |-> None,
     rejection_notice |-> None]

Init ==
    /\ mlist \in MailingLists
    /\ msg = IdleMessage
    /\ msgdata = IdleMetadata
    /\ autoresponse_ok = TRUE
    /\ entry = "process"
    /\ exc = NoReason
    /\ loc = NoLocals
    /\ pc = "idle"
    /\ outcome = Returned
    /\ calls = 0
    /\ heldDb = <<>>
    /\ pendings = <<>>
    /\ senderNotices = <<>>
    /\ moderatorNotices = <<>>
    /\ logLines = <<>>
    /\ trace = <<>>
    /\ language \in Languages
    /\ cgidata = NoForm
    /\ store = NoStore
    /\ events = <<>>
    /\ start = [held |-> 0, pend |-> 0, lang |-> language]
    /\ ackRet = None

\* The pipeline hands the next message to process(), or another handler
\* calls hold_for_approval() with the reason it found.
Receive ==
    /\ pc = "idle"
    /\ calls < MaxCalls
    /\ calls' = calls + 1
    /\ autoresponse_ok' \in BOOLEAN
    /\ \/ /\ entry' = "process"
          /\ msg' \in Messages
          /\ msgdata' \in Metadata
          /\ exc' = NoReason
          /\ pc' = "process"
       \/ /\ entry' = "hold"
          /\ msg' \in {ms \in Messages : ms.indicators = {}}
          /\ msgdata' \in {md \in Metadata : md.approved = None}
          /\ exc' \in DirectReasons
          /\ pc' = "hold_for_approval"
    /\ outcome' = Running
    /\ start' = [held |-> Len(heldDb), pend |-> Len(pendings), lang |-> language]
    /\ UNCHANGED <<mlist, loc, heldDb, pendings, senderNotices,
                   moderatorNotices, logLines, trace, ackRet,
                   language,
                   cgidata,
                   store, events>>

\* The caller takes the call's result and drops the message, its metadata
\* and what it observed of the call; the stores keep their records.
Finish ==
    /\ pc = "done"
    /\ pc' = "idle"
    /\ msg' = IdleMessage
    /\ msgdata' = IdleMetadata
    /\ autoresponse_ok' = TRUE
    /\ entry' = "process"
    /\ exc' = NoReason
    /\ loc' = NoLocals
    /\ outcome' = Returned
    /\ senderNotices' = <<>>
    /\ moderatorNotices' = <<>>
    /\ logLines' = <<>>
    /\ trace' = <<>>
    /\ start' = [held |-> Len(heldDb), pend |-> Len(pendings), lang |-> language]
    /\ UNCHANGED <<mlist, calls, heldDb, pendings, ackRet,
                   language,
                   cgidata,
                   store, events>>

\* process(mlist, msg, msgdata), lines 147-163: whether the suspicious-header
\* evaluator runs, and whether the message is held.
process_evaluates(ml, md) ==
    /\ ~Flag(md.approved)
    /\ ml.bounce_matching_headers # {}

\* process without the approved short-circuit.
process_holds_ignoring_approved(ml, m, md) ==
    /\ ml.bounce_matching_headers # {}
    /\ has_matching_bounce_header(ml, m)

\* process holding without asking whether a rule matched.
process_holds_any_message(ml, m, md) == process_evaluates(ml, md)

process_holds(ml, m, md) ==
    /\ process_evaluates(ml, md)
    /\ has_matching_bounce_header(ml, m)

\* Lines 150-158: the sender process works out, with the envelope sender
\* in place of a header sender that starts with <listname>-admin.
process_sender(ml, m) ==
    LET listname == ml.list_name
        adminaddr == listname \o <<"-","a","d","m","i","n">>
        sender == get_sender(m)
    IN  IF sender = <<>> \/ Take(sender, Len(listname) + 6) = adminaddr
        THEN get_sender_fallback(m)
        ELSE sender

\* process(mlist, msg, msgdata) up to its call of hold_for_approval.
Process ==
    /\ pc = "process"
    /\ loc' = IF Flag(msgdata.approved) THEN loc
              ELSE [loc EXCEPT !.process_sender = process_sender(mlist, msg)]
    /\ trace' = IF process_evaluates(mlist, msgdata)
                THEN Append(trace, "has_matching_bounce_header")
                ELSE trace
    /\ IF process_holds(mlist, msg, msgdata)
       THEN /\ exc' = ReasonClass("SuspiciousHeaders")
            /\ pc' = "hold_for_approval"
            /\ UNCHANGED outcome
       ELSE /\ outcome' = Returned
            /\ pc' = "done"
            /\ UNCHANGED exc
    /\ UNCHANGED <<mlist, msg, msgdata, autoresponse_ok, entry, calls,
                   heldDb, pendings, senderNotices, moderatorNotices,
                   logLines, start, ackRet,
                   language,
                   cgidata,
                   store, events>>

----------------------------------------------------------------------------
\* hold_for_approval(mlist, msg, msgdata, exc)

\* The class itself in place of an instance of it.
instantiate_not(e) == e

\* exc(): instantiating a reason class with no arguments.
instantiate(e) == ReasonInstance(e.cls, <<>>)

\* hold_message(mlist, msg, msgdata, reason): the registrar stores the held
\* message and returns its identifier, the next request id of the list.
hold_message(db, ml, m, md, reason) ==
    Append(db, [list_name |-> ml.list_name,
                message_id |-> Get(m.message_id, "n/a"),
                rejection_notice |-> md.rejection_notice,
                reason |-> reason])

\* config.db.pendings.add(pendable): the store keeps the record under a new
\* token and returns the token.
pendings_add(db, pendable) == Append(db, pendable)

\* The display subject of the held message.
usersubject(ml, m) ==
    IF m.subject # None /\ m.subject[1] # ""
    THEN <<"oneline", m.subject[1], ml.preferred_language>>
    ELSE <<"_", "(no subject)", "">>

\* The substitution dictionary d of the notification templates.
substitutions(ml, m, l) ==
    [listname |-> ml.list_name,
     hostname |-> ml.host_name,
     reason |-> l.reason,
     sender |-> l.sender,
     subject |-> usersubject(ml, m),
     admindb_url |-> script_url(ml, "admindb"),
     confirmurl |-> l.confirmurl]

\* Lines 175-193: normalise the reason, compute the locals, store the
\* rejection notice in the metadata.
HoldBegin ==
    /\ pc = "hold_for_approval"
    /\ IF exc.isclass /\ CtorArity(exc.cls) # 0
       THEN /\ outcome' = Failed("TypeError")
            /\ pc' = "done"
            /\ UNCHANGED <<loc, msgdata, trace>>
       ELSE LET e == IF exc.isclass THEN instantiate(exc) ELSE exc
            IN  /\ loc' = [loc EXCEPT
                             !.exc = e,
                             !.sender = Get(msgdata.sender, get_sender(msg)),
                             !.reason = wrap(reason_notice(e))]
                /\ msgdata' = [msgdata EXCEPT !.rejection_notice =
                                 Some(wrap(rejection_notice(e, mlist)))]
                /\ trace' = Append(trace, "rejection_notice")
                /\ pc' = "hold_message"
                /\ UNCHANGED outcome
    /\ UNCHANGED <<mlist, msg, autoresponse_ok, entry, exc, calls, heldDb,
                   pendings, senderNotices, moderatorNotices, logLines,
                   start, ackRet,
                   language,
                   cgidata,
                   store, events>>

\* Line 194 with the registrar marking the message it holds.
HoldMessage_marking_message ==
    /\ pc = "hold_message"
    /\ heldDb' = hold_message(heldDb, mlist, msg, msgdata, loc.reason)
    /\ msg' = [msg EXCEPT !.indicators = @ \cup {"x-mailman-held"}]
    /\ loc' = [loc EXCEPT !.id = Len(heldDb')]
    /\ trace' = Append(trace, "hold_message")
    /\ pc' = "pendings_add"
    /\ UNCHANGED <<mlist, msgdata, autoresponse_ok, entry, exc, outcome,
                   calls, pendings, senderNotices, moderatorNotices,
                   logLines, start, ackRet, language,
                   cgidata,
                   store, events>>

\* Line 194 followed at once by the notifications, lines 213-214 left out.
HoldMessage_skipping_pendings ==
    /\ pc = "hold_message"
    /\ heldDb' = hold_message(heldDb, mlist, msg, msgdata, loc.reason)
    /\ loc' = [loc EXCEPT !.id = Len(heldDb')]
    /\ trace' = Append(trace, "hold_message")
    /\ pc' = "sender_notice"
    /\ UNCHANGED <<mlist, msg, msgdata, autoresponse_ok, entry, exc, outcome,
                   calls, pendings, senderNotices, moderatorNotices,
                   logLines, start, ackRet, language, cgidata,
                   store, events>>

\* Line 194: register the held message.
HoldMessage ==
    /\ pc = "hold_message"
    /\ heldDb' = hold_message(heldDb, mlist, msg, msgdata, loc.reason)
    /\ loc' = [loc EXCEPT !.id = Len(heldDb')]
    /\ trace' = Append(trace, "hold_message")
    /\ pc' = "pendings_add"
    /\ UNCHANGED <<mlist, msg, msgdata, autoresponse_ok, entry, exc, outcome,
                   calls, pendings, senderNotices, moderatorNotices,
                   logLines, start, ackRet,
                   language,
                   cgidata,
                   store, events>>

\* Lines 213-214 with the store's failure caught and the call going on.
PendingsAdd_catching_failure ==
    /\ pc = "pendings_add"
    /\ \/ /\ pendings' = pendings_add(pendings,
                            HeldMessagePendable(PEND_KEY, loc.id))
          /\ loc' = [loc EXCEPT !.token = Len(pendings')]
          /\ trace' = Append(trace, "pendings_add")
       \/ /\ trace' = Append(trace, "pendings_add_failed")
          /\ UNCHANGED <<pendings, loc>>
    /\ pc' = "sender_notice"
    /\ UNCHANGED <<mlist, msg, msgdata, autoresponse_ok, entry, exc, outcome,
                   calls, heldDb, senderNotices, moderatorNotices, logLines,
                   start, ackRet,
                   language,
                   cgidata,
                   store, events>>

\* Lines 213-214 with the held message withdrawn and the rejection notice
\* cleared when the store fails.
PendingsAdd_rolling_back ==
    /\ pc = "pendings_add"
    /\ \/ /\ pendings' = pendings_add(pendings,
                            HeldMessagePendable(PEND_KEY, loc.id))
          /\ loc' = [loc EXCEPT !.token = Len(pendings')]
          /\ trace' = Append(trace, "pendings_add")
          /\ pc' = "sender_notice"
          /\ UNCHANGED <<outcome, heldDb, msgdata>>
       \/ /\ outcome' = Failed("PendingStoreError")
          /\ trace' = Append(trace, "pendings_add_failed")
          /\ pc' = "done"
          /\ heldDb' = SubSeq(heldDb, 1, Len(heldDb) - 1)
          /\ msgdata' = [msgdata EXCEPT !.rejection_notice = None]
          /\ UNCHANGED <<pendings, loc>>
    /\ UNCHANGED <<mlist, msg, autoresponse_ok, entry, exc, calls,
                   senderNotices, moderatorNotices, logLines, start, ackRet,
                   language, cgidata,
                   store, events>>

\* Lines 213-214: register the pending record and obtain the token.  The
\* store may fail; nothing in hold_for_approval catches that.
PendingsAdd ==
    /\ pc = "pendings_add"
    /\ \/ /\ pendings' = pendings_add(pendings,
                            HeldMessagePendable(PEND_KEY, loc.id))
          /\ loc' = [loc EXCEPT !.token = Len(pendings')]
          /\ trace' = Append(trace, "pendings_add")
          /\ pc' = "sender_notice"
          /\ UNCHANGED outcome
       \/ /\ outcome' = Failed("PendingStoreError")
          /\ trace' = Append(trace, "pendings_add_failed")
          /\ pc' = "done"
          /\ UNCHANGED <<pendings, loc>>
    /\ UNCHANGED <<mlist, msg, msgdata, autoresponse_ok, entry, exc, calls,
                   heldDb, senderNotices, moderatorNotices, logLines, start, ackRet,
                   language,
                   cgidata,
                   store, events>>

\* Lines 218-219: the language of the sender notification.
response_language(ml, sender) ==
    LET member == get_member(ml, sender)
    IN  IF member # None THEN member[1].preferred_language
        ELSE ml.preferred_language

\* Lines 220-221 without the fromusenet test.
notify_sender_ignoring_usenet(ml, m, md, allowed) ==
    ackp(m) # 0 /\ ml.respond_to_post_requests /\ allowed

\* Lines 220-221: whether the sender is notified.
notify_sender(ml, m, md, allowed) ==
    /\ ~Flag(md.fromusenet)
    /\ ackp(m) # 0
    /\ ml.respond_to_post_requests
    /\ allowed

\* The confirmation URL built from a token that was never set.
confirmurl_without_token(ml, token) == <<script_url(ml, "confirm"), 0>>

\* Lines 223-224: the confirmation URL of the sender notification.
confirmurl(ml, token) == <<script_url(ml, "confirm"), token>>

\* Line 225: lang = msgdata.get('lang', lang)
notice_language(md, lang) == Get(md.lang, lang)

\* Lines 223-228: the sender notification.
sender_notice(ml, m, md, l) ==
    LET url == confirmurl(ml, l.token)
        lang == notice_language(md, l.lang)
        d == substitutions(ml, m, [l EXCEPT !.confirmurl = Some(url)])
    IN  [recip |-> l.sender,
         sender |-> ml.bounces_address,
         subject |-> "Your message to $listname awaits moderator approval",
         text |-> [template |-> "postheld.txt", d |-> d, lang |-> lang],
         lang |-> lang]

\* Lines 218-229 with a failure of the send caught and the call going on.
SenderNotify_catching_failure ==
    /\ pc = "sender_notice"
    /\ LET lang == response_language(mlist, loc.sender)
           l == [loc EXCEPT !.lang = lang]
       IN  IF notify_sender(mlist, msg, msgdata, autoresponse_ok)
           THEN /\ \/ /\ senderNotices' =
                           Append(senderNotices,
                                  sender_notice(mlist, msg, msgdata, l))
                      /\ trace' = Append(trace, "send_sender")
                   \/ /\ trace' = Append(trace, "send_sender_failed")
                      /\ UNCHANGED senderNotices
                /\ loc' = [l EXCEPT
                             !.confirmurl = Some(confirmurl(mlist, l.token)),
                             !.lang = Get(msgdata.lang, lang)]
           ELSE /\ loc' = l
                /\ UNCHANGED <<senderNotices, trace>>
    /\ pc' = "moderator_notice"
    /\ UNCHANGED <<mlist, msg, msgdata, autoresponse_ok, entry, exc, outcome,
                   calls, heldDb, pendings, moderatorNotices, logLines,
                   start, ackRet,
                   language,
                   cgidata,
                   store, events>>

\* Lines 218-229: notify the sender, if wanted.  Sending may fail.
SenderNotify ==
    /\ pc = "sender_notice"
    /\ LET lang == response_language(mlist, loc.sender)
           l == [loc EXCEPT !.lang = lang]
       IN  IF notify_sender(mlist, msg, msgdata, autoresponse_ok)
           THEN \/ /\ senderNotices' =
                        Append(senderNotices, sender_notice(mlist, msg, msgdata, l))
                   /\ loc' = [l EXCEPT
                                !.confirmurl = Some(confirmurl(mlist, l.token)),
                                !.lang = Get(msgdata.lang, lang)]
                   /\ trace' = Append(trace, "send_sender")
                   /\ pc' = "moderator_notice"
                   /\ UNCHANGED outcome
                \/ /\ outcome' = Failed("SendError")
                   /\ loc' = [l EXCEPT
                                !.confirmurl = Some(confirmurl(mlist, l.token)),
                                !.lang = Get(msgdata.lang, lang)]
                   /\ trace' = Append(trace, "send_sender_failed")
                   /\ pc' = "done"
                   /\ UNCHANGED senderNotices
           ELSE /\ loc' = l
                /\ pc' = "moderator_notice"
                /\ UNCHANGED <<senderNotices, trace, outcome>>
    /\ UNCHANGED <<mlist, msg, msgdata, autoresponse_ok, entry, exc, calls,
                   heldDb, pendings, moderatorNotices, logLines, start, ackRet,
                   language,
                   cgidata,
                   store, events>>

\* Line 233 without the admin_immed_notify test.
notify_moderators_always(ml) == TRUE

\* Line 233: whether the owners and moderators are notified.
notify_moderators(ml) == ml.admin_immed_notify

\* Lines 250-261: the control message a moderator replies to.
control_subject(token) == <<"confirm ", token>>

control_message(ml, token) ==
    [Subject |-> control_subject(token),
     Sender |-> ml.request_address,
     From |-> ml.request_address]

\* Lines 237-264 without line 263, the attachment of the held message.
moderator_notice_without_original(ml, m, l) ==
    LET lang == ml.preferred_language
        d == substitutions(ml, m, l)
    IN  [recip |-> ml.owner_address,
         sender |-> ml.owner_address,
         subject |-> "$listname post from $sender requires approval",
         lang |-> lang,
         type |-> "multipart/mixed",
         parts |-> <<[template |-> "postauth.txt", d |-> d, lang |-> lang],
                     [attached |-> control_message(ml, l.token)]>>,
         tomoderators |-> TRUE]

\* Lines 237-264: the moderator notification.
moderator_notice(ml, m, l) ==
    LET lang == ml.preferred_language
        d == substitutions(ml, m, l)
    IN  [recip |-> ml.owner_address,
         sender |-> ml.owner_address,
         subject |-> "$listname post from $sender requires approval",
         lang |-> lang,
         type |-> "multipart/mixed",
         parts |-> <<[template |-> "postauth.txt", d |-> d, lang |-> lang],
                     [attached |-> m],
                     [attached |-> control_message(ml, l.token)]>>,
         tomoderators |-> TRUE]

\* i18n.using_language(lang): entering the block makes lang the active
\* language and remembers the one that was active; leaving it, by its end
\* or by an exception, makes the remembered language active again.
using_language_enter(active, lang) == [active |-> lang, saved |-> active]

using_language_exit(ctx) == ctx.saved

\* Lines 233-265 with the language left switched when the send fails.
ModeratorNotify_leaking_language ==
    /\ pc = "moderator_notice"
    /\ IF notify_moderators(mlist)
       THEN LET ctx == using_language_enter(language, mlist.preferred_language)
            IN  \/ /\ moderatorNotices' =
                        Append(moderatorNotices,
                               moderator_notice(mlist, msg, loc))
                   /\ loc' = [loc EXCEPT !.lang = mlist.preferred_language]
                   /\ trace' = Append(trace, "send_moderator")
                   /\ pc' = "log"
                   /\ language' = using_language_exit(ctx)
                   /\ UNCHANGED outcome
                \/ /\ outcome' = Failed("SendError")
                   /\ loc' = [loc EXCEPT !.lang = mlist.preferred_language]
                   /\ trace' = Append(trace, "send_moderator_failed")
                   /\ pc' = "done"
                   /\ language' = ctx.active
                   /\ UNCHANGED moderatorNotices
       ELSE /\ pc' = "log"
            /\ UNCHANGED <<moderatorNotices, loc, trace, outcome, language>>
    /\ UNCHANGED <<mlist, msg, msgdata, autoresponse_ok, entry, exc, calls,
                   heldDb, pendings, senderNotices, logLines, start, ackRet,
                   cgidata,
                   store, events>>

\* Lines 233-265: notify the owners and moderators, if wanted, composing
\* the notification inside the with block of line 236.
ModeratorNotify ==
    /\ pc = "moderator_notice"
    /\ IF notify_moderators(mlist)
       THEN LET ctx == using_language_enter(language, mlist.preferred_language)
            IN  \/ /\ moderatorNotices' =
                        Append(moderatorNotices,
                               moderator_notice(mlist, msg, loc))
                   /\ loc' = [loc EXCEPT !.lang = mlist.preferred_language]
                   /\ trace' = Append(trace, "send_moderator")
                   /\ pc' = "log"
                   /\ language' = using_language_exit(ctx)
                   /\ UNCHANGED outcome
                \/ /\ outcome' = Failed("SendError")
                   /\ loc' = [loc EXCEPT !.lang = mlist.preferred_language]
                   /\ trace' = Append(trace, "send_moderator_failed")
                   /\ pc' = "done"
                   /\ language' = using_language_exit(ctx)
                   /\ UNCHANGED moderatorNotices
       ELSE /\ pc' = "log"
            /\ UNCHANGED <<moderatorNotices, loc, trace, outcome, language>>
    /\ UNCHANGED <<mlist, msg, msgdata, autoresponse_ok, entry, exc, calls,
                   heldDb, pendings, senderNotices, logLines, start, ackRet,
                   cgidata,
                   store, events>>

\* Lines 267-268: the audit line.
log_line(ml, m, l) ==
    [listname |-> ml.list_name, sender |-> l.sender,
     message_id |-> Get(m.message_id, "n/a"), reason |-> l.reason]

\* Lines 267-271 with a return in place of the raise.
LogAndReturn ==
    /\ pc = "log"
    /\ logLines' = Append(logLines, log_line(mlist, msg, loc))
    /\ trace' = Append(trace, "log")
    /\ outcome' = Returned
    /\ pc' = "done"
    /\ UNCHANGED <<mlist, msg, msgdata, autoresponse_ok, entry, exc, loc,
                   calls, heldDb, pendings, senderNotices, moderatorNotices,
                   start, ackRet,
                   language,
                   cgidata,
                   store, events>>

\* Lines 267-271 with the log call inside the admin_immed_notify block.
LogOnlyWhenModeratorsNotified ==
    /\ pc = "log"
    /\ logLines' = IF notify_moderators(mlist)
                   THEN Append(logLines, log_line(mlist, msg, loc))
                   ELSE logLines
    /\ trace' = IF notify_moderators(mlist)
                THEN trace \o <<"log", "raise">>
                ELSE Append(trace, "raise")
    /\ outcome' = Raised(loc.exc)
    /\ pc' = "done"
    /\ UNCHANGED <<mlist, msg, msgdata, autoresponse_ok, entry, exc, loc,
                   calls, heldDb, pendings, senderNotices, moderatorNotices,
                   start, ackRet,
                   language,
                   cgidata,
                   store, events>>

\* Lines 267-271: log the hold, then raise the reason.
LogAndRaise ==
    /\ pc = "log"
    /\ logLines' = Append(logLines, log_line(mlist, msg, loc))
    /\ trace' = trace \o <<"log", "raise">>
    /\ outcome' = Raised(loc.exc)
    /\ pc' = "done"
    /\ UNCHANGED <<mlist, msg, msgdata, autoresponse_ok, entry, exc, loc,
                   calls, heldDb, pendings, senderNotices, moderatorNotices,
                   start, ackRet,
                   language,
                   cgidata,
                   store, events>>

Next ==
    \/ Receive
    \/ Process
    \/ HoldBegin
    \/ HoldMessage
    \/ PendingsAdd
    \/ SenderNotify
    \/ ModeratorNotify
    \/ LogAndRaise
    \/ Finish

Spec == Init /\ [][Next]_vars

----------------------------------------------------------------------------
\* ackp(msg) called on its own, on X-Ack and Precedence headers in every
\* spelling of upper and lower case.

UpperOf(c) ==
    IF \E i \in DOMAIN LowerLetters : LowerLetters[i] = c
    THEN UpperLetters[CHOOSE i \in DOMAIN LowerLetters : LowerLetters[i] = c]
    ELSE c

RECURSIVE Spellings(_)
Spellings(s) ==
    IF s = <<>> THEN {<<>>}
    ELSE {<<c>> \o t : c \in {s[1], UpperOf(s[1])}, t \in Spellings(Tail(s))}

AckHeaders ==
    {None, Some(<<>>), Some(<<"n","o">>), Some(<<"N","O">>), Some(<<"y">>),
     Some(<<"y","e","s"," ">>)}
        \cup {Some(v) : v \in Spellings(s_yes)}

PrecedenceHeaders ==
    {None, Some(<<>>), Some(<<"b","u","l","k","y">>),
     Some(<<"n","o","r","m","a","l">>)}
        \cup {Some(v) : v \in Spellings(s_bulk) \cup Spellings(s_junk)
                                \cup Spellings(s_list)}

InitAckp ==
    /\ mlist \in {ml \in MailingLists :
                    /\ ml.admin_immed_notify
                    /\ ml.respond_to_post_requests
                    /\ ml.bounce_matching_headers = {}}
    /\ msg \in {[IdleMessage EXCEPT !.x_ack = a, !.precedence = p] :
                  a \in AckHeaders, p \in PrecedenceHeaders}
    /\ msgdata = IdleMetadata
    /\ autoresponse_ok = TRUE
    /\ entry = "process"
    /\ exc = NoReason
    /\ loc = NoLocals
    /\ pc = "idle"
    /\ outcome = Returned
    /\ calls = 0
    /\ heldDb = <<>>
    /\ pendings = <<>>
    /\ senderNotices = <<>>
    /\ moderatorNotices = <<>>
    /\ logLines = <<>>
    /\ trace = <<>>
    /\ language = ListLang
    /\ cgidata = NoForm
    /\ store = NoStore
    /\ events = <<>>
    /\ start = [held |-> 0, pend |-> 0, lang |-> language]
    /\ ackRet = None

AckpCall ==
    /\ ackRet = None
    /\ ackRet' = Some(ackp(msg))
    /\ UNCHANGED <<mlist, msg, msgdata, autoresponse_ok, entry, exc, loc, pc,
                   outcome, calls, heldDb, pendings, senderNotices,
                   moderatorNotices, logLines, trace, start, language,
                   cgidata,
                   store, events>>

NextAckp == AckpCall

SpecAckp == InitAckp /\ [][NextAckp]_vars

----------------------------------------------------------------------------
\* Gui/Topics.py: the form handler of the topics page of the list
\* administrator's interface.

MaxBoxes == 1

\* A value int() is applied to: the text of a form field, the list of
\* texts of a field the form holds several times, or the integer the list
\* attribute holds.
IntVal(n) == [kind |-> "int", v |-> n]
StrVal(s) == [kind |-> "str", v |-> s]
ListVal(l) == [kind |-> "list", v |-> l]

Digits == {"0","1","2","3","4","5","6","7","8","9"}

DigitValue(c) ==
    CASE c = "0" -> 0 [] c = "1" -> 1 [] c = "2" -> 2 [] c = "3" -> 3
      [] c = "4" -> 4 [] c = "5" -> 5 [] c = "6" -> 6 [] c = "7" -> 7
      [] c = "8" -> 8 [] c = "9" -> 9

\* The characters int() skips: blank, tab, line feed, carriage return, form
\* feed and vertical tab.
Whitespace == {" ", "\t", "\n", "\r", "\f", ""}

RECURSIVE lstrip(_)
lstrip(s) ==
    IF s # <<>> /\ s[1] \in Whitespace THEN lstrip(Tail(s)) ELSE s

RECURSIVE rstrip(_)
rstrip(s) ==
    IF s # <<>> /\ s[Len(s)] \in Whitespace
    THEN rstrip(SubSeq(s, 1, Len(s) - 1))
    ELSE s

RECURSIVE digits_value(_)
digits_value(s) ==
    IF s = <<>> THEN 0
    ELSE 10 * digits_value(SubSeq(s, 1, Len(s) - 1)) + DigitValue(s[Len(s)])

\* int(x): the integer itself, or the integer a text denotes: decimal
\* digits, with an optional sign before them, and with whitespace allowed
\* before the sign, between the sign and the digits and after the digits.
\* It raises ValueError on any other text and TypeError on a list.
py_int(x) ==
    IF x.kind = "int" THEN [error |-> "", value |-> x.v]
    ELSE IF x.kind = "list" THEN [error |-> "TypeError", value |-> 0]
    ELSE LET t == rstrip(lstrip(x.v))
             signed == t # <<>> /\ t[1] \in {"+", "-"}
             body == IF signed THEN lstrip(Tail(t)) ELSE t
         IN  IF body = <<>> \/ \E k \in 1..Len(body) : body[k] \notin Digits
             THEN [error |-> "ValueError", value |-> 0]
             ELSE IF signed /\ t[1] = "-"
             THEN [error |-> "", value |-> 0 - digits_value(body)]
             ELSE [error |-> "", value |-> digits_value(body)]

\* cgidata.getvalue(key, default): the form holds under each key the values
\* submitted for it, in order.  None of them gives the default, one gives
\* that text, several give the list of them.
getvalue(form, key, default) ==
    IF form[key] = <<>> THEN default
    ELSE IF Len(form[key]) = 1 THEN StrVal(form[key][1])
    ELSE ListVal(form[key])

\* Lines 133-139 and 140-146: try: attr = int(getvalue(...)); except
\* ValueError: pass.  The value is what the attribute holds afterwards; any
\* other error of int() leaves the try block.
int_or_keep(current, form, key) ==
    LET n == py_int(getvalue(form, key, IntVal(current)))
    IN  IF n.error = "" THEN n
        ELSE IF n.error = "ValueError" THEN [error |-> "", value |-> current]
        ELSE [error |-> n.error, value |-> current]

\* Lines 80-128: the topics the boxes of the form describe.  A box holds
\* what the form has under the seven tags of its number: whether the
\* delete, add and new tags are there, and the values submitted under the
\* four others.
RECURSIVE topic_boxes(_, _, _)
topic_boxes(boxes, i, topics) ==
    IF i > Len(boxes) THEN topics
    ELSE LET b == boxes[i]
             value(v) == IF v = <<>> THEN None
                         ELSE IF Len(v) = 1 THEN v[1] ELSE v
             this == <<value(b.name), value(b.pattern), value(b.desc), 0>>
             empty == <<"", "", "", 1>>
             falsy(v) == v = <<>> \/ v = <<"">>
         IN  IF b.delete THEN topic_boxes(boxes, i + 1, topics)
             ELSE IF b.name = None THEN topics
             ELSE IF b.new /\ (falsy(b.name) \/ falsy(b.pattern))
             THEN topic_boxes(boxes, i + 1, topics)
             ELSE IF b.add
             THEN IF b.where = Some("before")
                  THEN topic_boxes(boxes, i + 1, topics \o <<empty, this>>)
                  ELSE topic_boxes(boxes, i + 1, topics \o <<this, empty>>)
             ELSE topic_boxes(boxes, i + 1, Append(topics, this))

\* The forms an administrator submits.
Boxes ==
    {b \in [delete : BOOLEAN,
            name : {None, Some(""), Some("news"), <<"news", "sport">>},
            pattern : {Some(""), Some("^news")},
            desc : {Some("News items")},
            new : BOOLEAN,
            add : BOOLEAN,
            where : {None, Some("before")}] :
        /\ b.where # None => b.add
        /\ b.delete => (~b.new /\ ~b.add /\ b.pattern = Some(""))}

FieldTexts ==
    {<<"1">>, <<" ","1","2"," ">>, <<"-","1">>, <<"+","3">>,
     <<"\t","5","\n">>, <<"-"," ","4">>,
     <<>>, <<"x">>, <<"1",".","5">>, <<"7","x">>, <<"-">>, <<"1"," ","2">>}

\* A numeric field submitted twice.
RepeatedFields == {<< <<"1">>, <<"2">> >>}

Forms ==
    [boxes : UNION {[1..n -> Boxes] : n \in 0..MaxBoxes},
     topics_enabled :
         {None} \cup {Some(s) : s \in FieldTexts} \cup RepeatedFields,
     topics_bodylines_limit :
         {None} \cup {Some(s) : s \in FieldTexts} \cup RepeatedFields]

TopicLists ==
    [topics : {<<>>, <<<<"old", "^old", "Old items", 0>>>>},
     topics_enabled : {0, 1},
     topics_bodylines_limit : {5}]

InitTopics ==
    /\ mlist \in TopicLists
    /\ cgidata \in Forms
    /\ store = NoStore
    /\ events = <<>>
    /\ start = mlist
    /\ pc = "HandleForm"
    /\ outcome = Running
    /\ msg = IdleMessage
    /\ msgdata = IdleMetadata
    /\ autoresponse_ok = TRUE
    /\ entry = "HandleForm"
    /\ exc = NoReason
    /\ loc = NoLocals
    /\ calls = 0
    /\ heldDb = <<>>
    /\ pendings = <<>>
    /\ senderNotices = <<>>
    /\ moderatorNotices = <<>>
    /\ logLines = <<>>
    /\ trace = <<>>
    /\ language = ListLang
    /\ ackRet = None

\* Topics.HandleForm(mlist, cgidata, doc): the three attributes are
\* assigned in turn, and an error that is not a ValueError ends the call
\* with the earlier assignments made.
HandleForm ==
    /\ pc = "HandleForm"
    /\ LET topics == topic_boxes(cgidata.boxes, 1, <<>>)
           enabled == int_or_keep(mlist.topics_enabled, cgidata,
                                  "topics_enabled")
           limit == int_or_keep(mlist.topics_bodylines_limit, cgidata,
                                "topics_bodylines_limit")
       IN  IF enabled.error # ""
           THEN /\ mlist' = [mlist EXCEPT !.topics = topics]
                /\ outcome' = Failed(enabled.error)
           ELSE IF limit.error # ""
           THEN /\ mlist' = [mlist EXCEPT
                                !.topics = topics,
                                !.topics_enabled = enabled.value]
                /\ outcome' = Failed(limit.error)
           ELSE /\ mlist' = [mlist EXCEPT
                                !.topics = topics,
                                !.topics_enabled = enabled.value,
                                !.topics_bodylines_limit = limit.value]
                /\ outcome' = Returned
    /\ pc' = "done"
    /\ UNCHANGED <<msg, msgdata, autoresponse_ok, entry, exc, loc, calls,
                   heldDb, pendings, senderNotices, moderatorNotices,
                   logLines, trace, start, ackRet, language, cgidata,
                   store, events>>

NextTopics == HandleForm

SpecTopics == InitTopics /\ [][NextTopics]_vars

----------------------------------------------------------------------------
\* model/domain.py: the domain manager.

MaxDomainCalls == 4

MailHosts == {"example.com", "example.org"}
BaseUrls == {None, Some("https://lists.example.com")}
KnownUser == 1
UnknownUser == 9
OwnerIds == {None, Some(KnownUser), Some(UnknownUser)}

\* Domain.__init__: the row of a new domain, not yet in the database.
Domain(mail_host, description, base_url, owner) ==
    [id |-> 0,
     mail_host |-> mail_host,
     base_url |-> IF base_url # None THEN <<base_url[1]>>
                  ELSE <<"http://", mail_host>>,
     description |-> description,
     owners |-> IF owner # None THEN <<owner[1]>> ELSE <<>>]

\* Domain.add_owner(owner)
add_owner(domain, owner) == [domain EXCEPT !.owners = Append(@, owner)]

\* store.add(domain): the row gets the next primary key of the table.
store_add(s, domain) ==
    [s EXCEPT !.domain = @ \cup {[domain EXCEPT !.id = s.next_id]},
              !.next_id = @ + 1]

\* store.delete(domain)
store_delete(s, domain) == [s EXCEPT !.domain = @ \ {domain}]

\* store.query(User).get(owner_id)
query_user(s, owner_id) ==
    IF owner_id \in s.user THEN Some(owner_id) ELSE None

\* DomainManager.get that finds no domain at all.
get_never_finding(s, mail_host, default) ==
    [error |-> "", value |-> default]

\* DomainManager.get(mail_host, default): the domain of that mail host, the
\* default when there is none, an AssertionError when there are several.
get(s, mail_host, default) ==
    LET domains == {d \in s.domain : d.mail_host = mail_host}
    IN  IF Cardinality(domains) < 1 THEN [error |-> "", value |-> default]
        ELSE IF Cardinality(domains) # 1
        THEN [error |-> "AssertionError", value |-> None]
        ELSE [error |-> "", value |-> Some(CHOOSE d \in domains : TRUE)]

\* The events, with what each carries.
DomainCreatingEvent(mail_host) ==
    [event |-> "DomainCreatingEvent", mail_host |-> mail_host]
DomainCreatedEvent(domain) ==
    [event |-> "DomainCreatedEvent", domain |-> domain]
DomainDeletingEvent(domain) ==
    [event |-> "DomainDeletingEvent", domain |-> domain]
DomainDeletedEvent(mail_host) ==
    [event |-> "DomainDeletedEvent", mail_host |-> mail_host]

NoDomainLocals ==
    [mail_host |-> "", description |-> None, base_url |-> None,
     owner_id |-> None, owner |-> None, domain |-> None]

InitDomains ==
    /\ store = [domain |-> {}, user |-> {KnownUser}, next_id |-> 1]
    /\ events = <<>>
    /\ loc = NoDomainLocals
    /\ entry = "add"
    /\ pc = "idle"
    /\ outcome = Returned
    /\ calls = 0
    /\ trace = <<>>
    /\ start = [store |-> store]
    /\ mlist = CHOOSE ml \in MailingLists : TRUE
    /\ msg = IdleMessage
    /\ msgdata = IdleMetadata
    /\ autoresponse_ok = TRUE
    /\ exc = NoReason
    /\ heldDb = <<>>
    /\ pendings = <<>>
    /\ senderNotices = <<>>
    /\ moderatorNotices = <<>>
    /\ logLines = <<>>
    /\ language = ListLang
    /\ cgidata = NoForm
    /\ ackRet = None

\* A caller calls add or remove.
DomainCall ==
    /\ pc = "idle"
    /\ calls < MaxDomainCalls
    /\ calls' = calls + 1
    /\ \E h \in MailHosts :
          \/ /\ entry' = "add"
             /\ \E b \in BaseUrls, o \in OwnerIds :
                   loc' = [NoDomainLocals EXCEPT !.mail_host = h,
                                                 !.base_url = b,
                                                 !.owner_id = o]
             /\ pc' = "add"
          \/ /\ entry' = "remove"
             /\ loc' = [NoDomainLocals EXCEPT !.mail_host = h]
             /\ pc' = "remove"
    /\ outcome' = Running
    /\ start' = [store |-> store]
    /\ UNCHANGED <<mlist, msg, msgdata, autoresponse_ok, exc, heldDb, pendings,
                   senderNotices, moderatorNotices, logLines, trace, ackRet,
                   language, cgidata, store, events>>

\* A caller adds an owner to a stored domain it has looked up: the row of
\* the domain has the owner from then on, and no event is notified.
AddOwner ==
    /\ pc = "idle"
    /\ calls < MaxDomainCalls
    /\ calls' = calls + 1
    /\ \E domain \in store.domain, owner \in {KnownUser, UnknownUser} :
          store' = [store EXCEPT
                      !.domain = (@ \ {domain}) \cup
                                 {add_owner(domain, owner)}]
    /\ start' = [store |-> store']
    /\ UNCHANGED <<mlist, msg, msgdata, autoresponse_ok, entry, exc, loc, pc,
                   outcome, heldDb, pendings, senderNotices, moderatorNotices,
                   logLines, trace, ackRet, language, cgidata, events>>

\* The caller takes the result; the database keeps its rows.
DomainFinish ==
    /\ pc = "done"
    /\ pc' = "idle"
    /\ loc' = NoDomainLocals
    /\ entry' = "add"
    /\ outcome' = Returned
    /\ trace' = <<>>
    /\ events' = <<>>
    /\ start' = [store |-> store]
    /\ UNCHANGED <<mlist, msg, msgdata, autoresponse_ok, exc, calls, heldDb,
                   pendings, senderNotices, moderatorNotices, logLines,
                   ackRet, language, cgidata, store>>

\* add, lines 130-139: the mail host must be new and the owner must exist.
AddCheck ==
    /\ pc = "add"
    /\ LET found == get(store, loc.mail_host, None)
           owner == IF loc.owner_id # None
                    THEN query_user(store, loc.owner_id[1]) ELSE None
       IN  IF found.error # ""
           THEN /\ outcome' = Failed(found.error)
                /\ pc' = "done"
                /\ UNCHANGED loc
           ELSE IF found.value # None
           THEN /\ outcome' = Failed("BadDomainSpecificationError")
                /\ pc' = "done"
                /\ UNCHANGED loc
           ELSE IF loc.owner_id # None /\ owner = None
           THEN /\ outcome' = Failed("BadDomainSpecificationError")
                /\ pc' = "done"
                /\ UNCHANGED loc
           ELSE /\ loc' = [loc EXCEPT !.owner = owner]
                /\ pc' = "add_creating"
                /\ UNCHANGED outcome
    /\ UNCHANGED <<mlist, msg, msgdata, autoresponse_ok, entry, exc, calls,
                   heldDb, pendings, senderNotices, moderatorNotices,
                   logLines, trace, start, ackRet, language, cgidata, store,
                   events>>

\* add, line 140
AddCreating ==
    /\ pc = "add_creating"
    /\ events' = Append(events, DomainCreatingEvent(loc.mail_host))
    /\ trace' = Append(trace, "DomainCreatingEvent")
    /\ pc' = "add_store"
    /\ UNCHANGED <<mlist, msg, msgdata, autoresponse_ok, entry, exc, loc,
                   outcome, calls, heldDb, pendings, senderNotices,
                   moderatorNotices, logLines, start, ackRet, language,
                   cgidata, store>>

\* add, lines 141-142
AddStore ==
    /\ pc = "add_store"
    /\ LET domain == Domain(loc.mail_host, loc.description, loc.base_url,
                            loc.owner)
       IN  /\ store' = store_add(store, domain)
           /\ loc' = [loc EXCEPT !.domain =
                                   Some([domain EXCEPT !.id = store.next_id])]
    /\ trace' = Append(trace, "store.add")
    /\ pc' = "add_created"
    /\ UNCHANGED <<mlist, msg, msgdata, autoresponse_ok, entry, exc, outcome,
                   calls, heldDb, pendings, senderNotices, moderatorNotices,
                   logLines, start, ackRet, language, cgidata, events>>

\* add, lines 143-144
AddCreated ==
    /\ pc = "add_created"
    /\ events' = Append(events, DomainCreatedEvent(loc.domain[1]))
    /\ trace' = Append(trace, "DomainCreatedEvent")
    /\ outcome' = Returned
    /\ pc' = "done"
    /\ UNCHANGED <<mlist, msg, msgdata, autoresponse_ok, entry, exc, loc,
                   calls, heldDb, pendings, senderNotices, moderatorNotices,
                   logLines, start, ackRet, language, cgidata, store>>

\* remove, line 148: self[mail_host], a KeyError when there is no such
\* domain.
RemoveLookup ==
    /\ pc = "remove"
    /\ LET found == get(store, loc.mail_host, None)
       IN  IF found.error # ""
           THEN /\ outcome' = Failed(found.error)
                /\ pc' = "done"
                /\ UNCHANGED loc
           ELSE IF found.value = None
           THEN /\ outcome' = Failed("KeyError")
                /\ pc' = "done"
                /\ UNCHANGED loc
           ELSE /\ loc' = [loc EXCEPT !.domain = found.value]
                /\ pc' = "remove_deleting"
                /\ UNCHANGED outcome
    /\ UNCHANGED <<mlist, msg, msgdata, autoresponse_ok, entry, exc, calls,
                   heldDb, pendings, senderNotices, moderatorNotices,
                   logLines, trace, start, ackRet, language, cgidata, store,
                   events>>

\* remove, line 149: the subscribers of the event run while the domain is
\* still stored.
RemoveDeleting ==
    /\ pc = "remove_deleting"
    /\ events' = Append(events, DomainDeletingEvent(loc.domain[1]))
    /\ trace' = Append(trace, "DomainDeletingEvent")
    /\ pc' = "remove_store"
    /\ UNCHANGED <<mlist, msg, msgdata, autoresponse_ok, entry, exc, loc,
                   outcome, calls, heldDb, pendings, senderNotices,
                   moderatorNotices, logLines, start, ackRet, language,
                   cgidata, store>>

\* remove, line 150
RemoveStore ==
    /\ pc = "remove_store"
    /\ store' = store_delete(store, loc.domain[1])
    /\ trace' = Append(trace, "store.delete")
    /\ pc' = "remove_deleted"
    /\ UNCHANGED <<mlist, msg, msgdata, autoresponse_ok, entry, exc, loc,
                   outcome, calls, heldDb, pendings, senderNotices,
                   moderatorNotices, logLines, start, ackRet, language,
                   cgidata, events>>

\* remove, lines 151-152
RemoveDeleted ==
    /\ pc = "remove_deleted"
    /\ events' = Append(events, DomainDeletedEvent(loc.mail_host))
    /\ trace' = Append(trace, "DomainDeletedEvent")
    /\ outcome' = Returned
    /\ pc' = "done"
    /\ UNCHANGED <<mlist, msg, msgdata, autoresponse_ok, entry, exc, loc,
                   calls, heldDb, pendings, senderNotices, moderatorNotices,
                   logLines, start, ackRet, language, cgidata, store>>

NextDomains ==
    \/ DomainCall
    \/ AddCheck
    \/ AddCreating
    \/ AddStore
    \/ AddCreated
    \/ RemoveLookup
    \/ RemoveDeleting
    \/ RemoveStore
    \/ RemoveDeleted
    \/ AddOwner
    \/ DomainFinish

SpecDomains == InitDomains /\ [][NextDomains]_vars

----------------------------------------------------------------------------
\* The properties of the handler.

Done == pc = "done"

\* Number of times step x occurs in the trace of the call.
Count(x) == Cardinality({i \in DOMAIN trace : trace[i] = x})

\* The call ran hold_for_approval to its end: it raised the reason.
HoldCompleted == Done /\ outcome.status = "raised"

\* What the call added to the two stores and sent or logged.
NothingRegistered ==
    /\ Len(heldDb) = start.held
    /\ Len(pendings) = start.pend
NothingSent == senderNotices = <<>> /\ moderatorNotices = <<>>

\* A configured bounce-header rule names a header of the message.
RuleMatches == mlist.bounce_matching_headers \cap msg.indicators # {}
Approved == msgdata.approved = Some(TRUE)

\* C1: process returns normally exactly when it finds no violation; when it
\* finds one it calls hold_for_approval, which never returns normally: with
\* every collaborator succeeding it ends by raising the reason itself, and
\* otherwise it ends with a collaborator's failure.
C1_ProcessReturnsIffNoViolation ==
    /\ (Done /\ entry = "process") =>
          /\ (outcome.status = "returned") <=> ~(~Approved /\ RuleMatches)
          /\ (~Approved /\ RuleMatches) =>
                /\ Count("rejection_notice") = 1
                /\ outcome.status \in {"raised", "failed"}
                /\ outcome.status = "raised" =>
                      outcome.raised = Some(ReasonInstance("SuspiciousHeaders", <<>>))
    /\ (Done /\ Count("rejection_notice") > 0) =>
          /\ outcome.status # "returned"
          /\ outcome.status = "raised" =>
                /\ outcome.raised = Some(loc.exc)
                /\ loc.exc.cls = exc.cls
                /\ ~exc.isclass => loc.exc = exc
                /\ trace[Len(trace)] = "raise"
          /\ outcome.status = "failed" =>
                /\ outcome.error \in {"PendingStoreError", "SendError"}
                /\ outcome.raised = None

C1_Witness ==
    /\ Done
    /\ entry = "process"
    /\ outcome = Raised(ReasonInstance("SuspiciousHeaders", <<>>))

\* C2: a message whose metadata has approved set passes process without a
\* raise, without any rule evaluator running, without a held-message or
\* pending record being registered and without any notification.
C2_ApprovedPassesUntouched ==
    (entry = "process" /\ Approved /\ pc # "idle") =>
        /\ pc \in {"process", "done"}
        /\ Done => outcome = Returned
        /\ trace = <<>>
        /\ NothingRegistered
        /\ NothingSent
        /\ logLines = <<>>
        /\ msgdata.rejection_notice = None

C2_Witness ==
    /\ Done
    /\ entry = "process"
    /\ Approved
    /\ RuleMatches
    /\ outcome = Returned
    /\ start.pend > 0

\* C3: an unapproved message given to process is held, and then for the
\* reason SuspiciousHeaders, exactly when bounce-header matching is enabled
\* and a configured rule matches the message; otherwise there is no hold and
\* nothing is registered.
C3_SuspiciousHeadersIffMatch ==
    (Done /\ entry = "process" /\ ~Approved) =>
        LET enabled == mlist.bounce_matching_headers # {}
            held == Count("rejection_notice") > 0
        IN  /\ held <=> (enabled /\ RuleMatches)
            /\ held =>
                  /\ exc = ReasonClass("SuspiciousHeaders")
                  /\ loc.exc = ReasonInstance("SuspiciousHeaders", <<>>)
                  /\ Len(heldDb) = start.held + 1
                  /\ heldDb[Len(heldDb)].reason =
                        wrap([text |-> "Message has a suspicious header",
                              args |-> <<>>])
            /\ ~held =>
                  /\ outcome = Returned
                  /\ NothingRegistered
                  /\ NothingSent
                  /\ logLines = <<>>

C3_Witness ==
    /\ Done
    /\ entry = "process"
    /\ ~Approved
    /\ mlist.bounce_matching_headers = {"x-spam-flag"}
    /\ "x-spam-flag" \in msg.indicators
    /\ outcome.status = "raised"
    /\ loc.exc.cls = "SuspiciousHeaders"

\* C4: in a hold call in which every collaborator succeeds, exactly one
\* sender notification is sent when fromusenet is unset, ackp(msg) is true,
\* the list responds to post requests and the autoresponder policy allows
\* it; in every other combination none is sent.
C4_SenderNotifiedIffAllFour ==
    HoldCompleted =>
        LET wanted == /\ msgdata.fromusenet = None
                      /\ ackp(msg) = 1
                      /\ mlist.respond_to_post_requests
                      /\ autoresponse_ok
        IN  /\ Len(senderNotices) = (IF wanted THEN 1 ELSE 0)
            /\ Count("send_sender") = Len(senderNotices)
            /\ \A i \in DOMAIN senderNotices :
                  /\ senderNotices[i].recip = loc.sender
                  /\ senderNotices[i].sender = mlist.bounces_address

C4_Witness ==
    /\ HoldCompleted
    /\ Len(senderNotices) = 1
    /\ msg.x_ack = Some(s_yes)
    /\ msg.precedence # None

\* C5: in a hold call in which every collaborator succeeds, exactly one
\* moderator notification, addressed to the owners and moderators, is sent
\* when admin_immed_notify is true and none when it is false, whether or
\* not the sender was notified.
C5_ModeratorsNotifiedIffImmedNotify ==
    HoldCompleted =>
        /\ Len(moderatorNotices) = (IF mlist.admin_immed_notify THEN 1 ELSE 0)
        /\ Count("send_moderator") = Len(moderatorNotices)
        /\ \A i \in DOMAIN moderatorNotices :
              /\ moderatorNotices[i].recip = mlist.owner_address
              /\ moderatorNotices[i].tomoderators

C5_Witness ==
    /\ HoldCompleted
    /\ Len(moderatorNotices) = 1
    /\ Len(senderNotices) = 0
    /\ mlist.respond_to_post_requests

\* C6: the token in the confirmation URL of the sender notification and the
\* token in the subject of the moderator notification's control message are
\* the token the pending store returned for this hold.
C6_OneTokenEverywhere ==
    LET token == Len(pendings)
    IN  /\ \A i \in DOMAIN senderNotices :
              /\ token = start.pend + 1
              /\ pendings[token].id = loc.id
              /\ senderNotices[i].text.d.confirmurl =
                    Some(<<script_url(mlist, "confirm"), token>>)
        /\ \A i \in DOMAIN moderatorNotices :
              /\ token = start.pend + 1
              /\ pendings[token].id = loc.id
              /\ moderatorNotices[i].parts[3].attached.Subject =
                    <<"confirm ", token>>

C6_Witness ==
    /\ Len(senderNotices) = 1
    /\ Len(moderatorNotices) = 1
    /\ loc.token # loc.id
    /\ senderNotices[1].text.d.confirmurl[1][2] = loc.token
    /\ moderatorNotices[1].parts[3].attached.Subject[2] = loc.token

\* C7: a hold call that completes has registered exactly one held-message
\* record, from the list, the message, the metadata and the reason text, and
\* after it exactly one pending record of kind 'held message' whose id is
\* the identifier hold_message returned, whatever notifications were sent.
C7_OneHeldRecordOnePendingRecord ==
    HoldCompleted =>
        /\ Len(heldDb) = start.held + 1
        /\ Len(pendings) = start.pend + 1
        /\ Count("hold_message") = 1
        /\ Count("pendings_add") = 1
        /\ \A i, j \in DOMAIN trace :
              (trace[i] = "hold_message" /\ trace[j] = "pendings_add") => i < j
        /\ heldDb[Len(heldDb)] =
              [list_name |-> mlist.list_name,
               message_id |-> msg.message_id[1],
               rejection_notice |-> msgdata.rejection_notice,
               reason |-> wrap(reason_notice(outcome.raised[1]))]
        /\ msgdata.rejection_notice # None
        /\ pendings[Len(pendings)] =
              [type |-> "held message", id |-> Len(heldDb)]

C7_Witness ==
    /\ HoldCompleted
    /\ NothingSent
    /\ start.held = 1
    /\ start.pend = 0
    /\ pendings = <<[type |-> "held message", id |-> 2]>>

\* The header is 'yes', or one of bulk, junk and list, in some spelling of
\* upper and lower case.
SaysYes(h) == \E v \in Spellings(s_yes) : h = Some(v)
SaysBulkJunkOrList(h) ==
    \E w \in {s_bulk, s_junk, s_list} : \E v \in Spellings(w) : h = Some(v)

\* C8: ackp(msg) is false exactly when X-Ack is absent or not 'yes' and
\* Precedence is one of bulk, junk and list, compared without regard to
\* case; it is true in every other case.
C8_AckpTable ==
    ackRet # None =>
        /\ ackRet[1] \in {0, 1}
        /\ ackRet[1] = 0 <=>
              (~SaysYes(msg.x_ack) /\ SaysBulkJunkOrList(msg.precedence))

C8_Witness ==
    /\ ackRet = Some(0)
    /\ msg.x_ack = Some(<<"N","O">>)
    /\ msg.precedence = Some(<<"J","u","N","k">>)

\* C9: a hold call that reaches its end has written exactly one audit line,
\* with the list name, the sender, the message-id and the reason, whichever
\* notifications were sent, and has written it before raising the reason.
C9_OneAuditLineBeforeRaise ==
    /\ HoldCompleted =>
          /\ logLines =
                <<[listname |-> mlist.list_name,
                   sender |-> Get(msgdata.sender, msg.sender),
                   message_id |-> msg.message_id[1],
                   reason |-> wrap(reason_notice(outcome.raised[1]))]>>
          /\ Count("log") = 1
          /\ Count("raise") = 1
          /\ Len(trace) >= 2
          /\ trace[Len(trace) - 1] = "log"
          /\ trace[Len(trace)] = "raise"
    /\ Len(logLines) <= 1
    /\ logLines # <<>> => HoldCompleted

C9_Witness ==
    /\ HoldCompleted
    /\ Len(logLines) = 1
    /\ Len(senderNotices) = 1
    /\ Len(moderatorNotices) = 0

\* C10: when the pending store's add fails, the failure is not caught: the
\* call ends there with that failure, not with the hold reason, and sends no
\* sender notification, no moderator notification and writes no audit line.
C10_PendingFailurePropagates ==
    Count("pendings_add_failed") > 0 =>
        /\ Done
        /\ outcome = Failed("PendingStoreError")
        /\ trace[Len(trace)] = "pendings_add_failed"
        /\ Len(pendings) = start.pend
        /\ NothingSent
        /\ logLines = <<>>

C10_Witness ==
    /\ Done
    /\ outcome = Failed("PendingStoreError")
    /\ Len(heldDb) = start.held + 1
    /\ mlist.admin_immed_notify
    /\ mlist.respond_to_post_requests
    /\ msgdata.fromusenet = None
    /\ ackp(msg) = 1
    /\ autoresponse_ok

\* C11: a failure while composing or sending a notification ends the hold
\* call and is not retried: each notification's send is attempted at most
\* once, and when the sender notification's send fails the call ends with
\* that failure, without an attempt at the moderator notification, without
\* the audit line and without raising the reason.
C11_SendFailureIsFatal ==
    /\ Count("send_sender") + Count("send_sender_failed") <= 1
    /\ Count("send_moderator") + Count("send_moderator_failed") <= 1
    /\ Count("send_sender_failed") > 0 =>
          /\ Done
          /\ outcome = Failed("SendError")
          /\ trace[Len(trace)] = "send_sender_failed"
          /\ senderNotices = <<>>
          /\ moderatorNotices = <<>>
          /\ Count("send_moderator") + Count("send_moderator_failed") = 0
          /\ logLines = <<>>
    /\ Count("send_moderator_failed") > 0 =>
          /\ Done
          /\ outcome = Failed("SendError")
          /\ trace[Len(trace)] = "send_moderator_failed"
          /\ moderatorNotices = <<>>
          /\ logLines = <<>>

C11_Witness ==
    /\ Done
    /\ outcome = Failed("SendError")
    /\ Count("send_sender_failed") = 1
    /\ mlist.admin_immed_notify
    /\ Len(pendings) = start.pend + 1

\* C12: when the sender the headers name is <listname>-admin, the sender
\* the hold uses for the sender notification, for the moderator summary and
\* for the audit line is the envelope sender.
C12_AdminAliasFallsBackToEnvelope ==
    (msg.sender = AdminAliasAddr /\ msgdata.sender = None) =>
        /\ \A i \in DOMAIN senderNotices :
              senderNotices[i].recip = msg.envelope_sender
        /\ \A i \in DOMAIN moderatorNotices :
              moderatorNotices[i].parts[1].d.sender = msg.envelope_sender
        /\ \A i \in DOMAIN logLines :
              logLines[i].sender = msg.envelope_sender

\* C13: the translation language that is active when a call ends is the one
\* that was active when it began, whether the call returned, raised its
\* reason or failed, the moderator notification's with block included.
C13_LanguageRestored ==
    Done => language = start.lang

C13_Witness ==
    /\ Done
    /\ Count("send_moderator_failed") = 1
    /\ start.lang # mlist.preferred_language
    /\ language = start.lang

\* The language of the sender if they are a known member of the list, else
\* the list's preferred language.
MemberOrListLanguage ==
    IF loc.sender \in DOMAIN mlist.members
    THEN mlist.members[loc.sender].preferred_language
    ELSE mlist.preferred_language

\* C14: the sender notification is rendered in the language of
\* the sender if they are a known member, else in the list's preferred
\* language, whatever the metadata holds.
C14_MemberOrListLanguageAlways ==
    \A i \in DOMAIN senderNotices :
        /\ senderNotices[i].lang = MemberOrListLanguage
        /\ senderNotices[i].text.lang = MemberOrListLanguage

\* The other three conditions of the sender notification hold.
OtherConditionsHold ==
    /\ msgdata.fromusenet = None
    /\ mlist.respond_to_post_requests
    /\ autoresponse_ok

XAckNo == msg.x_ack = Some(<<"n","o">>)
XAckYes == msg.x_ack = Some(<<"y","e","s">>)
PrecedenceBulk == msg.precedence = Some(<<"B","u","l","k">>)

\* C15 as stated: X-Ack: no makes the message acknowledgeable whatever its
\* Precedence, so the sender notification is sent; without X-Ack: no a bulk
\* precedence suppresses it.
C15_XAckNoForcesNotification ==
    (HoldCompleted /\ OtherConditionsHold) =>
        /\ XAckNo => Len(senderNotices) = 1
        /\ (~XAckNo /\ PrecedenceBulk) => Len(senderNotices) = 0

\* C15: X-Ack: yes makes the message acknowledgeable whatever its
\* Precedence, so the sender notification is sent; without X-Ack: yes (the
\* header absent, or X-Ack: no) a bulk precedence suppresses it, and no
\* precedence leaves it sent.
C15_XAckYesForcesNotification ==
    (HoldCompleted /\ OtherConditionsHold) =>
        /\ XAckYes => Len(senderNotices) = 1
        /\ (~XAckYes /\ PrecedenceBulk) => Len(senderNotices) = 0
        /\ ~PrecedenceBulk => Len(senderNotices) = 1

C15_Witness ==
    /\ HoldCompleted
    /\ OtherConditionsHold
    /\ XAckNo
    /\ PrecedenceBulk
    /\ senderNotices = <<>>

\* C16: the moderator notification is a multipart message of exactly three
\* parts, in this order: the summary text for the administrators, the held
\* message itself, and the control message; the control message's subject
\* is 'confirm ' followed by the token, its From and its Sender are the
\* list's request address; the notification is from and to the list's
\* owner address.
C16_ModeratorNoticeThreeParts ==
    \A i \in DOMAIN moderatorNotices :
        LET n == moderatorNotices[i]
        IN  /\ n.type = "multipart/mixed"
            /\ Len(n.parts) = 3
            /\ DOMAIN n.parts[1] = {"template", "d", "lang"}
            /\ n.parts[1].template = "postauth.txt"
            /\ n.parts[2] = [attached |-> msg]
            /\ DOMAIN n.parts[3] = {"attached"}
            /\ n.parts[3].attached.Subject = <<"confirm ", Len(pendings)>>
            /\ n.parts[3].attached.From = mlist.request_address
            /\ n.parts[3].attached.Sender = mlist.request_address
            /\ n.sender = mlist.owner_address
            /\ n.recip = mlist.owner_address

C16_Witness ==
    /\ HoldCompleted
    /\ Len(moderatorNotices) = 1
    /\ Len(moderatorNotices[1].parts) = 3
    /\ Len(pendings) = 2

\* The call reached hold_for_approval, and no collaborator failed in it.
HoldCalled == exc # NoReason
CollaboratorsSucceeded ==
    Count("pendings_add_failed") + Count("send_sender_failed")
        + Count("send_moderator_failed") = 0

\* C17 as stated: whichever reason class it is, MessageTooBig included,
\* hold_for_approval takes it as a class, which it instantiates with no
\* arguments, or as an instance, which it uses as given, and raises that
\* instance at the end.
C17_EveryReasonAsClassOrInstance ==
    (Done /\ HoldCalled /\ CollaboratorsSucceeded) =>
        outcome = Raised(IF exc.isclass THEN ReasonInstance(exc.cls, <<>>)
                         ELSE exc)

\* C17: an instance of any reason class is used as given and raised at the
\* end; a class whose constructor needs no argument is instantiated with
\* no arguments before any other step and that instance is raised;
\* MessageTooBig passed as a class fails with a TypeError before anything
\* is stored, sent or logged.
C17_InstanceOrArgumentlessClass ==
    /\ (HoldCalled /\ pc \notin {"hold_for_approval", "done"}) =>
           /\ ~loc.exc.isclass
           /\ loc.exc = (IF exc.isclass THEN ReasonInstance(exc.cls, <<>>)
                         ELSE exc)
    /\ (Done /\ HoldCalled /\ CollaboratorsSucceeded) =>
           IF exc.isclass /\ exc.cls = "MessageTooBig"
           THEN /\ outcome = Failed("TypeError")
                /\ trace = <<>>
                /\ NothingRegistered
                /\ NothingSent
                /\ logLines = <<>>
                /\ msgdata.rejection_notice = None
           ELSE outcome = Raised(IF exc.isclass
                                 THEN ReasonInstance(exc.cls, <<>>)
                                 ELSE exc)

C17_Witness ==
    /\ Done
    /\ exc = ReasonInstance("MessageTooBig", <<50, 40>>)
    /\ outcome = Raised(exc)
    /\ Len(logLines) = 1

\* C18: no step of process or of hold_for_approval changes the mailing
\* list's configuration or the message: both are the same at the end of
\* the call as at its start, whether it returned, raised or failed.
C18_ListAndMessageUnchanged ==
    [][pc \notin {"idle", "done"} => (mlist' = mlist /\ msg' = msg)]_vars

C18_Witness ==
    /\ HoldCompleted
    /\ entry = "process"
    /\ msg.sender = MemberAddr
    /\ Len(heldDb) = start.held + 1
    /\ Len(senderNotices) = 1
    /\ Len(moderatorNotices) = 1
    /\ moderatorNotices[1].parts[2].attached = msg

\* The texts that are integers, with the integer each denotes.
IntegerTexts ==
    {<<"1">>, <<" ","1","2"," ">>, <<"-","1">>, <<"+","3">>,
     <<"\t","5","\n">>, <<"-"," ","4">>}
IntegerOf(s) ==
    CASE s = <<"1">> -> 1
      [] s = <<" ","1","2"," ">> -> 12
      [] s = <<"-","1">> -> 0 - 1
      [] s = <<"+","3">> -> 3
      [] s = <<"\t","5","\n">> -> 5
      [] s = <<"-"," ","4">> -> 0 - 4

\* What the attribute of a numeric field holds after HandleForm when bad
\* values are swallowed: the integer of the one text submitted when that
\* text is an integer, and the value it had before in every other case.
AttributeAfter(key) ==
    IF Len(cgidata[key]) = 1 /\ cgidata[key][1] \in IntegerTexts
    THEN IntegerOf(cgidata[key][1])
    ELSE start[key]

\* C19: HandleForm returns without an error whatever the form holds in
\* topics_enabled and topics_bodylines_limit; each of the two attributes
\* keeps the value it had when the field is absent or what was submitted
\* for it is not an integer, and takes the integer when it is one, whatever
\* the other field holds.
C19_BadNumbersSwallowed ==
    pc = "done" =>
        /\ outcome = Returned
        /\ mlist.topics_enabled = AttributeAfter("topics_enabled")
        /\ mlist.topics_bodylines_limit =
              AttributeAfter("topics_bodylines_limit")

\* The place of each externally visible step in the order of one call.
Rank(step) ==
    CASE step = "has_matching_bounce_header" -> 0
      [] step = "rejection_notice" -> 1
      [] step = "hold_message" -> 2
      [] step \in {"pendings_add", "pendings_add_failed"} -> 3
      [] step \in {"send_sender", "send_sender_failed"} -> 4
      [] step \in {"send_moderator", "send_moderator_failed"} -> 5
      [] step = "log" -> 6
      [] step = "raise" -> 7

Happened(step) == Count(step) > 0

\* C20: the steps of one hold call happen in this order, each at most once:
\* the rejection notice is stored in the metadata, the held message is
\* registered, the pending record is added, the sender notification is
\* sent, the moderator notification is sent, the audit line is logged, the
\* reason is raised; no step happens without the ones that must precede
\* it, and no notification is sent before the pending store returned the
\* token.
C20_StepsInFixedOrder ==
    /\ \A i, j \in DOMAIN trace :
          i < j => Rank(trace[i]) < Rank(trace[j])
    /\ Happened("hold_message") =>
          /\ Happened("rejection_notice")
          /\ msgdata.rejection_notice # None
          /\ heldDb[Len(heldDb)].rejection_notice = msgdata.rejection_notice
    /\ (Happened("pendings_add") \/ Happened("pendings_add_failed")) =>
          Happened("hold_message")
    /\ \A s \in {"send_sender", "send_sender_failed", "send_moderator",
                  "send_moderator_failed", "log"} :
          Happened(s) =>
              /\ Happened("pendings_add")
              /\ Len(pendings) = start.pend + 1
    /\ (senderNotices # <<>> \/ moderatorNotices # <<>>) =>
          /\ Happened("pendings_add")
          /\ Len(pendings) = start.pend + 1
    /\ Happened("raise") =>
          /\ Happened("log")
          /\ trace[Len(trace)] = "raise"
          /\ trace[Len(trace) - 1] = "log"
          /\ Len(logLines) = 1

C20_Witness ==
    /\ HoldCompleted
    /\ trace = <<"rejection_notice", "hold_message", "pendings_add",
                 "send_sender", "send_moderator", "log", "raise">>

\* The held-message record this call registered is still in the registrar,
\* with the rejection notice that is still in the metadata.
HeldRecordKept ==
    /\ Len(heldDb) = start.held + 1
    /\ msgdata.rejection_notice # None
    /\ heldDb[Len(heldDb)].rejection_notice = msgdata.rejection_notice
    /\ heldDb[Len(heldDb)].reason = loc.reason

\* The pending record this call added is still in the pending store.
PendingRecordKept ==
    /\ Len(pendings) = start.pend + 1
    /\ pendings[Len(pendings)] = [type |-> "held message", id |-> loc.id]

\* C21: nothing is rolled back when a step fails.  When the pending store's
\* add fails, the held-message record registered by this call is still
\* registered and the rejection notice is still in the metadata; when a
\* notification's send fails, the pending record is still stored as well,
\* and a sender notification already sent stays sent; in each case the call
\* ended with the failure and not with the hold reason.
C21_NoRollback ==
    /\ Happened("pendings_add_failed") =>
          /\ outcome = Failed("PendingStoreError")
          /\ HeldRecordKept
          /\ Len(pendings) = start.pend
    /\ Happened("send_sender_failed") =>
          /\ outcome = Failed("SendError")
          /\ HeldRecordKept
          /\ PendingRecordKept
    /\ Happened("send_moderator_failed") =>
          /\ outcome = Failed("SendError")
          /\ HeldRecordKept
          /\ PendingRecordKept
          /\ Len(senderNotices) = Count("send_sender")

C21_Witness ==
    /\ Done
    /\ Happened("send_moderator_failed")
    /\ Len(senderNotices) = 1
    /\ HeldRecordKept
    /\ PendingRecordKept
    /\ start.held = 1

\* The stored domains of a mail host.
DomainsOf(s, h) == {d \in s.domain : d.mail_host = h}

\* C22: whatever add and remove calls were made, no two stored domains have
\* the same mail_host.  An add of a mail_host that is registered fails with
\* BadDomainSpecificationError, notifies no event and leaves the database
\* as it was.  An add that succeeds notifies DomainCreatingEvent while the
\* domain is not yet stored, stores the domain, and then notifies
\* DomainCreatedEvent.
C22_OneDomainPerMailHost ==
    /\ \A h \in MailHosts : Cardinality(DomainsOf(store, h)) <= 1
    /\ (pc = "done" /\ entry = "add"
          /\ DomainsOf(start.store, loc.mail_host) # {}) =>
          /\ outcome = Failed("BadDomainSpecificationError")
          /\ events = <<>>
          /\ store = start.store
    /\ (entry = "add" /\ pc # "idle") =>
          /\ store # start.store =>
                /\ Len(events) >= 1
                /\ events[1] = [event |-> "DomainCreatingEvent",
                                mail_host |-> loc.mail_host]
          /\ Len(events) >= 2 =>
                /\ Len(events) = 2
                /\ events[2] = [event |-> "DomainCreatedEvent",
                                domain |-> loc.domain[1]]
                /\ loc.domain[1] \in store.domain
                /\ Cardinality(DomainsOf(store, loc.mail_host)) = 1
          /\ Len(events) = 1 =>
                /\ events[1].event = "DomainCreatingEvent"
                /\ DomainsOf(start.store, loc.mail_host) = {}
    /\ (pc = "done" /\ entry = "add" /\ outcome = Returned) =>
          /\ trace = <<"DomainCreatingEvent", "store.add",
                       "DomainCreatedEvent">>
          /\ Len(events) = 2
          /\ DomainsOf(start.store, loc.mail_host) = {}
          /\ store.domain = start.store.domain \cup {loc.domain[1]}
          /\ loc.domain[1].mail_host = loc.mail_host
    /\ (pc = "done" /\ entry = "add" /\ outcome # Returned) =>
          /\ events = <<>>
          /\ store = start.store

C22_Witness ==
    /\ pc = "done"
    /\ entry = "add"
    /\ outcome = Failed("BadDomainSpecificationError")
    /\ loc.owner_id = None
    /\ Cardinality(store.domain) = 1
    /\ \E d \in store.domain : d.id = 2 /\ d.mail_host = loc.mail_host

====
